---- MODULE Spec2Model ----
(***************************************************************************)
(* Model of the bulk e-mail sender of src/email_sender.py: main()'s menu,  *)
(* EmailSender.load_excel, EmailSender.send_bulk_emails (the per-recipient *)
(* loop with its retry loop), EmailSender.send_email (the SMTP steps and   *)
(* the except chain) and EmailSender.generate_report.                      *)
(*                                                                         *)
(* Specifications:                                                         *)
(*   Spec         main from the return of EmailSender(...) to its end      *)
(*   CallSpec     one call of send_bulk_emails, with fairness              *)
(*   RetrySpec    the same call with the backoff sleeps timed              *)
(*   RenderSpec   one call of _render_template                             *)
(*   FileSpec     one pass through the PDF try block of the loop           *)
(*   ProcessSpec  the process from its start, with user interrupts         *)
(***************************************************************************)
EXTENDS Integers, Sequences, FiniteSets, TLC

(* ------------------------------ bounds -------------------------------- *)
\* rows of the Excel file
MaxRows == 3
\* largest configured settings.max_retries tried (0 is tried too)
MaxRetries == 2
\* the ledger self.results is never cleared: runs start only while it fits
MaxResults == 2
\* fields of the dict handed to _render_template
MaxFields == 2
\* pieces a template is put together from
MaxSegments == 2
\* characters of a cell of the columns nombre and nombre_pdf
MaxNameLen == 2
\* largest settings.max_retries tried where the backoff sleeps are timed
MaxTimedRetries == 3

(* --------------------------- program values --------------------------- *)
\* Python's None and '' where an error detail is expected (details are
\* modelled as tuples <<prefix, exception>>), and None elsewhere
NoneDetail == <<"None">>
EmptyDetail == <<"">>
None == "None"
\* smtp_config.get('use_tls', True): the key may be absent
Absent == "absent"
\* time.sleep(2) between failed attempts
BackoffSeconds == 2

(* ----------------------- the recipient source ------------------------- *)
\* A cell of the 'email' column: an address that matches email_pattern, or
\* text that does not. Row i of the file carries its own address and name.
Address(i) == <<"addr", i>>
Name(i) == <<"name", i>>
NotAnEmail == <<"not-an-email">>

\* df['email'].str.match(email_pattern, na=False)
EmailMatches(email) == email[1] = "addr"

\* The Excel files tried: every sequence of at most MaxRows rows, each with
\* a valid or an invalid address.
ExcelRow(i, valid) ==
    [email |-> IF valid THEN Address(i) ELSE NotAnEmail, nombre |-> Name(i)]

ExcelFiles ==
    UNION { { [i \in 1..n |-> ExcelRow(i, v[i])] : v \in [1..n -> BOOLEAN] }
            : n \in 0..MaxRows }

\* pd.read_excel gives row i (1-based here) the index label i-1
ReadExcel(file) ==
    [i \in 1..Len(file) |->
        [idx |-> i - 1, email |-> file[i].email, nombre |-> file[i].nombre]]

\* df[mask]: boolean-mask selection keeps the surviving rows in order, each
\* with the index label it had (there is no reset_index)
RECURSIVE FilterRows(_)
FilterRows(df) ==
    IF df = <<>> THEN <<>>
    ELSE IF EmailMatches(Head(df).email)
         THEN <<Head(df)>> \o FilterRows(Tail(df))
         ELSE FilterRows(Tail(df))

load_excel(file) == FilterRows(ReadExcel(file))

\* faulty variant: preview mode does not truncate
DfHead1_NoTruncate(d) == d

\* df.head(1)
DfHead1(df) == IF Len(df) >= 1 THEN <<df[1]>> ELSE <<>>

(* ------------------------- exceptions of send_email ------------------- *)
\* Python classes of the exceptions the steps of send_email raise, with
\* their base classes (smtplib.SMTPException derives from OSError).
Bases(exc) ==
    CASE exc = "SMTPAuthenticationError" ->
            {"SMTPAuthenticationError", "SMTPException", "OSError", "Exception"}
      [] exc = "SMTPServerDisconnected" ->
            {"SMTPServerDisconnected", "SMTPException", "OSError", "Exception"}
      [] exc = "ConnectionRefusedError" ->
            {"ConnectionRefusedError", "OSError", "Exception"}
      [] exc = "TypeError" ->
            {"TypeError", "Exception"}
      [] exc = "ValueError" ->
            {"ValueError", "Exception"}
      [] exc = "AttributeError" ->
            {"AttributeError", "Exception"}
      [] exc = "FileNotFoundError" ->
            {"FileNotFoundError", "OSError", "Exception"}
      [] exc = "PermissionError" ->
            {"PermissionError", "OSError", "Exception"}
      [] exc = "JSONDecodeError" ->
            {"JSONDecodeError", "ValueError", "Exception"}
      [] exc = "KeyboardInterrupt" ->
            {"KeyboardInterrupt", "BaseException"}

\* What each step of the try block can raise.
Raises(step) ==
    CASE step = "compose"      -> {"TypeError"}
      [] step = "connect"      -> {"ConnectionRefusedError", "SMTPServerDisconnected"}
      [] step = "starttls"     -> {"SMTPServerDisconnected"}
      [] step = "login"        -> {"SMTPAuthenticationError", "SMTPServerDisconnected"}
      [] step = "send_message" -> {"SMTPServerDisconnected"}
      [] step = "quit"         -> {"SMTPServerDisconnected"}

\* faulty variants of the except chain: one without the final
\* `except Exception`, one that tests SMTPException first
ExceptClause_NoCatchAll(exc) ==
    IF "SMTPAuthenticationError" \in Bases(exc) THEN "Error de autenticación"
    ELSE IF "SMTPException" \in Bases(exc) THEN "Error SMTP"
    ELSE "uncaught"

ExceptClause_SmtpFirst(exc) ==
    IF "SMTPException" \in Bases(exc) THEN "Error SMTP"
    ELSE IF "SMTPAuthenticationError" \in Bases(exc) THEN "Error de autenticación"
    ELSE IF "Exception" \in Bases(exc) THEN "Error inesperado"
    ELSE "uncaught"

\* The except chain of send_email: the first clause whose class the
\* exception is an instance of; "uncaught" when none matches.
ExceptClause(exc) ==
    IF "SMTPAuthenticationError" \in Bases(exc) THEN "Error de autenticación"
    ELSE IF "SMTPException" \in Bases(exc) THEN "Error SMTP"
    ELSE IF "Exception" \in Bases(exc) THEN "Error inesperado"
    ELSE "uncaught"

\* error = f"<prefix>: {e}"
ErrorDetail(exc) == <<ExceptClause(exc), exc>>

\* faulty variant: an absent use_tls counts as false
UseTls_AbsentIsOff(smtp) == smtp.use_tls = "True"

\* if smtp_config.get('use_tls', True)
UseTls(smtp) == IF smtp.use_tls = Absent THEN TRUE ELSE smtp.use_tls = "True"

(* ----------------------- pieces of send_bulk_emails ------------------- *)
\* faulty variant: the loop body runs once before the bound is looked at
InRange_AtLeastOnce(a, n) == a < n \/ a = 0

\* `for attempt in range(max_retries)`: a is yielded; range(n) is empty
\* for n <= 0
InRange(a, n) == 0 <= a /\ a < n

\* faulty variants of the backoff test: one that skips the sleep before the
\* last attempt, one that also sleeps after the last attempt
NeedsBackoff_SkipsLast(a, max_retries) == a < max_retries - 2
NeedsBackoff_AfterLast(a, max_retries) == a < max_retries

\* if attempt < max_retries - 1: time.sleep(2)
NeedsBackoff(a, max_retries) == a < max_retries - 1

\* faulty variant: the wait grows with the attempt number
BackoffWait_Growing(a) == BackoffSeconds * (a + 1)

\* time.sleep(2) after the failed attempt a: the seconds slept
BackoffWait(a) == BackoffSeconds

\* if idx < total - 1: time.sleep(delay)   (idx is the row's index label)
NeedsDelay(idx, n) == idx < n - 1

\* faulty variant: the status test is inverted
MakeResult_Inverted(d, ok, err) ==
    [email  |-> d.email,
     nombre |-> d.nombre,
     status |-> IF ~ok THEN "Éxito" ELSE "Error",
     error  |-> IF ~ok THEN err ELSE EmptyDetail]

\* the result dict appended to self.results
MakeResult(d, ok, err) ==
    [email  |-> d.email,
     nombre |-> d.nombre,
     status |-> IF ok THEN "Éxito" ELSE "Error",
     error  |-> IF ~ok THEN err ELSE EmptyDetail]

\* faulty variant: the ledger keeps the latest result only
AppendResult_Overwrite(ledger, result) == <<result>>

\* faulty variant: the result is put in front of the ledger
AppendResult_Prepend(ledger, result) == <<result>> \o ledger

\* self.results.append(result)
AppendResult(ledger, result) == Append(ledger, result)

\* what generate_personalized_pdf can raise (reportlab rejects the fields)
PdfRaises == {"ValueError"}

\* faulty variant: the PDF generation is not guarded
PdfExceptCatches_Nothing(exc) == FALSE

\* `except Exception as e` around the PDF generation
PdfExceptCatches(exc) == "Exception" \in Bases(exc)

\* faulty variant: the handler leaves bytes in pdf_data
PdfDataOnError_Stale == "bytes"

\* in that handler: pdf_data = None; pdf_filename = "documento.pdf"
PdfDataOnError == None
PdfFilenameOnError == <<"documento", ".pdf">>

(* ------------------------- _render_template --------------------------- *)
\* A string is a sequence of tokens: the brace pairs "{{" and "}}", words
\* and digits. f"{{{{{key}}}}}" is the placeholder of a key.
Placeholder(key) == <<"{{", key, "}}">>

\* a value of the dict: text, or a number read from a numeric column
Text(s) == <<"str", s>>
Number(n) == <<"int", n>>

Digit(d) ==
    CASE d = 0 -> "0" [] d = 1 -> "1" [] d = 2 -> "2" [] d = 3 -> "3"
      [] d = 4 -> "4" [] d = 5 -> "5" [] d = 6 -> "6" [] d = 7 -> "7"
      [] d = 8 -> "8" [] d = 9 -> "9"

RECURSIVE Decimal(_)
Decimal(n) ==
    IF n < 10 THEN <<Digit(n)>> ELSE Decimal(n \div 10) \o <<Digit(n % 10)>>

\* str(value)
Str(value) == IF value[1] = "str" THEN value[2] ELSE Decimal(value[2])

\* A dict is the sequence of its (key, value) items in insertion order.
DictKeys(d) == {d[i][1] : i \in 1..Len(d)}

\* d[key] = value: an existing key keeps its place, a new one goes last
SetItem(d, key, value) ==
    IF key \in DictKeys(d)
    THEN [i \in 1..Len(d) |-> IF d[i][1] = key THEN <<key, value>> ELSE d[i]]
    ELSE Append(d, <<key, value>>)

\* s.replace(old, new): every occurrence found from left to right, the
\* search resuming after the occurrence; the inserted text is not searched
RECURSIVE Replace(_, _, _)
Replace(s, old, new) ==
    IF Len(s) < Len(old) THEN s
    ELSE IF SubSeq(s, 1, Len(old)) = old
         THEN new \o Replace(SubSeq(s, Len(old) + 1, Len(s)), old, new)
         ELSE <<Head(s)>> \o Replace(Tail(s), old, new)

\* for key, value in data.items(): rendered = rendered.replace(...)
RECURSIVE RenderLoop(_, _)
RenderLoop(text, items) ==
    IF items = <<>> THEN text
    ELSE RenderLoop(Replace(text, Placeholder(Head(items)[1]),
                            Str(Head(items)[2])),
                    Tail(items))

\* self.config['email']['from_name']
FromName == <<"Ana">>

\* data['from_name'] = ... as _render_template leaves the caller's dict
WithFromName(d) == SetItem(d, "from_name", Text(FromName))

\* _render_template(template, data)
render_template(tpl, d) == RenderLoop(tpl, WithFromName(d))

\* the field names, cell values, dicts and templates tried
FieldNames == {"a", "b", "from_name"}
CellValues ==
    {Text(<<"x">>), Text(Placeholder("b")), Text(<<"{{">>), Number(42)}

DictsOfLen(n) ==
    {d \in [1..n -> FieldNames \X CellValues] :
        \A i, j \in 1..n : d[i][1] = d[j][1] => i = j}
Dicts == UNION {DictsOfLen(n) : n \in 0..MaxFields}

Segments ==
    {<<"x">>, <<"{{">>, <<"}}">>, <<"b">>}
        \cup {Placeholder(k) : k \in FieldNames \cup {"c"}}

RECURSIVE Flatten(_)
Flatten(ss) == IF ss = <<>> THEN <<>> ELSE Head(ss) \o Flatten(Tail(ss))

Templates ==
    {Flatten(ss) : ss \in UNION {[1..n -> Segments] : n \in 0..MaxSegments}}

(* ---------------------- the attachment's filename --------------------- *)
\* a NaN cell, and the dict comprehension that turns it into ''
NaN == <<"nan">>
NotNa(value) == IF value = NaN THEN Text(<<>>) ELSE value
Normalise(d) == [i \in 1..Len(d) |-> <<d[i][1], NotNa(d[i][2])>>]

\* d[key], for a key of d
Item(d, key) == d[CHOOSE i \in 1..Len(d) : d[i][1] = key][2]

\* faulty variant: no default
Get_NoDefault(d, key, default) ==
    IF key \in DictKeys(d) THEN Item(d, key) ELSE Text(<<>>)

\* d.get(key, default)
Get(d, key, default) == IF key \in DictKeys(d) THEN Item(d, key) ELSE default

\* the title cell, or 'documento' when the dict has no nombre_pdf
PdfName(d) == Get(d, "nombre_pdf", Text(<<"documento">>))

\* only str has .replace: a numeric cell raises AttributeError
DeriveRaises(d) ==
    IF PdfName(d)[1] = "str" /\ Item(d, "nombre")[1] = "str"
    THEN {} ELSE {"AttributeError"}

\* .replace('/', '_').replace('\\', '_').replace(':', '_')
Sanitise(s) ==
    Replace(Replace(Replace(s, <<"/">>, <<"_">>), <<"\\">>, <<"_">>),
            <<":">>, <<"_">>)

safe_pdf_name(d) == Sanitise(PdfName(d)[2])

\* faulty variant: the name is not sanitised
safe_nombre_Unsanitised(d) ==
    Replace(Item(d, "nombre")[2], <<" ">>, <<"_">>)

\* the same after .replace(' ', '_')
safe_nombre(d) == Sanitise(Replace(Item(d, "nombre")[2], <<" ">>, <<"_">>))

\* f"{safe_pdf_name}_{safe_nombre}.pdf"
PdfFilename(d) == safe_pdf_name(d) \o <<"_">> \o safe_nombre(d) \o <<".pdf">>

\* the cells and the rows tried: nombre is a required column, nombre_pdf
\* is an optional one
NameChars == {"/", "\\", ":", " ", "n"}
NameCells ==
    {Text(s) : s \in UNION {[1..n -> NameChars] : n \in 0..MaxNameLen}}
        \cup {Number(42), NaN}
Records ==
    {<<<<"nombre", v>>>> : v \in NameCells}
        \cup {<<<<"nombre", v>>, <<"nombre_pdf", w>>>> : v, w \in NameCells}

(* ------------------------------ start-up ------------------------------ *)
\* What the process finds when it starts: the configuration file, the two
\* credentials of the environment, the template file, the Excel file.
Envs ==
    [config_file : {"ok", "missing", "invalid"},
     credentials : BOOLEAN,
     template_file : {"ok", "missing", "unreadable"},
     excel_file : {"ok", "missing", "no_columns"}]

EnvOk ==
    [config_file |-> "ok", credentials |-> TRUE, template_file |-> "ok",
     excel_file |-> "ok"]

\* the text of the template file, and the basic template of
\* _load_email_template
TemplateOnDisk == <<"Hi ">> \o Placeholder("nombre")
BasicTemplate ==
    <<"Hola ">> \o Placeholder("nombre") \o Placeholder("mensaje_personalizado")
        \o <<"Saludos">> \o Placeholder("from_name")

\* faulty variant: the credentials are not checked
StartupRaises_NoCredentialCheck(step, e) ==
    CASE step = "config" ->
            IF e.config_file = "missing" THEN "FileNotFoundError"
            ELSE IF e.config_file = "invalid" THEN "JSONDecodeError"
            ELSE "ok"
      [] step = "credentials" -> "ok"
      [] step = "template" ->
            IF e.template_file = "unreadable" THEN "PermissionError" ELSE "ok"
      [] step = "load" ->
            IF e.excel_file = "missing" THEN "FileNotFoundError"
            ELSE IF e.excel_file = "no_columns" THEN "ValueError"
            ELSE "ok"

\* What a step of the start-up raises into main, "ok" when it returns:
\* _load_config re-raises FileNotFoundError and JSONDecodeError, __init__
\* raises ValueError without both credentials, _load_email_template handles
\* FileNotFoundError itself and lets any other error through, load_excel
\* re-raises what read_excel raised and raises ValueError without the
\* columns email and nombre.
StartupRaises(step, e) ==
    CASE step = "config" ->
            IF e.config_file = "missing" THEN "FileNotFoundError"
            ELSE IF e.config_file = "invalid" THEN "JSONDecodeError"
            ELSE "ok"
      [] step = "credentials" ->
            IF e.credentials THEN "ok" ELSE "ValueError"
      [] step = "template" ->
            IF e.template_file = "unreadable" THEN "PermissionError" ELSE "ok"
      [] step = "load" ->
            IF e.excel_file = "missing" THEN "FileNotFoundError"
            ELSE IF e.excel_file = "no_columns" THEN "ValueError"
            ELSE "ok"

\* main's handlers: KeyboardInterrupt gives sys.exit(0), any Exception
\* gives sys.exit(1)
MainExcept(exc) ==
    IF "KeyboardInterrupt" \in Bases(exc) THEN "0"
    ELSE IF "Exception" \in Bases(exc) THEN "1"
    ELSE "uncaught"

(* ------------------------------- state -------------------------------- *)
VARIABLES
    excel,          \* the rows of the Excel file on disk
    args_send,      \* main: args.send
    config,         \* self.config: settings.max_retries, smtp.use_tls
    df,             \* main: the DataFrame load_excel returned
    results,        \* self.results, the ledger
    pc,             \* where main / send_bulk_emails stands
    exitcode,       \* the process's exit code once it has ended
    preview_mode,   \* send_bulk_emails: its flag
    rows,           \* send_bulk_emails: df after the head(1) of preview mode
    total, success_count, failed_count,
    pos,            \* how many rows df.iterrows() has yielded so far
    pdf_data, pdf_filename,
    attempt,        \* the next value of range(max_retries)
    success, error_msg,
    spc,            \* the step send_email stands at
    msg,            \* send_email: the MIME message it composed
    ret,            \* what the last send_email call for this recipient returned
    server,         \* send_email: the connection of its SMTP object
    stats,          \* what the last send_bulk_emails call returned
    report,         \* what the last generate_report call wrote
    \* history of the call in progress, read by the properties only
    base,           \* len(self.results) when the call started
    sleptAfter,     \* positions after which the inter-recipient sleep ran
    waits,          \* backoff sleeps taken for the current recipient
    slept,          \* how long each of them lasted, in seconds
    sendCalls,      \* send_email calls made for the current recipient
    attemptLog,     \* whether each of these calls succeeded, in order
    sentTo,         \* the to_email of every send_email call of this run
    pdfFailed,      \* the PDF try block raised for the current recipient
    trace,          \* the steps the send_email call in progress completed
    raised,         \* the step of that call that raised, and what it raised
    \* a call of _render_template taken alone
    template,       \* its argument template
    fields,         \* its argument data, a dict; also the data of one
                    \* pass through the PDF try block taken alone
    rendered,       \* what it returned
    \* the start of the process
    env,            \* the files and credentials it finds
    email_template  \* self.email_template

callVars == <<preview_mode, rows, total, success_count, failed_count, pos>>
rcptVars == <<pdf_data, pdf_filename, attempt, success, error_msg>>
sendVars == <<spc, msg, ret, server>>
histVars == <<base, sleptAfter, waits, slept, sendCalls, attemptLog, sentTo, pdfFailed,
              trace, raised>>
\* what the steps of main and of send_bulk_emails leave alone
fnVars == <<template, fields, rendered>>
startVars == <<env, email_template>>
\* the state of main, send_bulk_emails and send_email
mainVars == <<excel, args_send, config, df, results, exitcode, callVars,
              rcptVars, sendVars, stats, report, histVars>>
vars == <<mainVars, pc, fnVars, startVars>>

\* the configurations tried; settings.max_retries is any integer of the
\* JSON file, a negative one and 0 included
Configs ==
    [max_retries : (-1)..MaxRetries, use_tls : {"True", "False", Absent}]

\* before any message was composed / any run returned
NoMsg == [to |-> <<>>, attachment |-> <<>>]
NoStats == [total |-> 0, success |-> 0, failed |-> 0]

\* the row the loop body is working on
data == rows[pos]

\* EmailSender(args.config) found everything and returned
Started ==
    /\ env = EnvOk
    /\ email_template = TemplateOnDisk

\* no function is being looked at alone
FnIdle ==
    /\ template = <<>>
    /\ fields = <<>>
    /\ rendered = <<>>

\* After EmailSender(args.config) returned and before load_excel (main).
Init ==
    /\ FnIdle
    /\ Started
    /\ excel \in ExcelFiles
    /\ args_send \in BOOLEAN
    /\ config \in Configs
    /\ df = <<>>
    /\ results = <<>>
    /\ pc = "load"
    /\ exitcode = None
    /\ preview_mode = FALSE
    /\ rows = <<>>
    /\ total = 0 /\ success_count = 0 /\ failed_count = 0
    /\ pos = 0
    /\ pdf_data = None /\ pdf_filename = <<>>
    /\ attempt = 0
    /\ success = FALSE /\ error_msg = NoneDetail
    /\ spc = "idle" /\ msg = NoMsg /\ ret = <<>> /\ server = "none"
    /\ stats = NoStats
    /\ report = <<>>
    /\ base = 0 /\ sleptAfter = {} /\ waits = 0 /\ slept = <<>> /\ sendCalls = 0
    /\ attemptLog = <<>> /\ sentTo = {} /\ pdfFailed = FALSE
    /\ trace = <<>> /\ raised = <<>>

(* ------------------------------- main --------------------------------- *)
\* faulty variant: --send is not looked at
AfterLoad_Menu(send) == "menu"

\* `if args.send:` asks for the confirmation at once; without it the menu
\* is shown
AfterLoad(send) == IF send THEN "confirm" ELSE "menu"

\* df = sender.load_excel()
LoadExcel ==
    /\ pc = "load"
    /\ StartupRaises("load", env) = "ok"
    /\ df' = load_excel(excel)
    /\ pc' = AfterLoad(args_send)
    /\ UNCHANGED <<fnVars, startVars, excel, args_send, config, results, exitcode, callVars, rcptVars,
                   sendVars, stats, report, histVars>>

\* opcion == '1': the confirmation prompt follows
MenuOption1 ==
    /\ pc = "menu"
    /\ pc' = "confirm"
    /\ UNCHANGED <<fnVars, startVars, excel, args_send, config, df, results, exitcode, callVars,
                   rcptVars, sendVars, stats, report, histVars>>

\* The entry of send_bulk_emails(d, preview): lines 269-277.
StartBulk(d, preview) ==
    /\ preview_mode' = preview
    /\ rows' = IF preview THEN DfHead1(d) ELSE d
    /\ total' = Len(rows')
    /\ success_count' = 0
    /\ failed_count' = 0
    /\ pos' = 0
    /\ pc' = "iter"
    /\ base' = Len(results)
    /\ sleptAfter' = {}
    /\ waits' = 0 /\ slept' = <<>> /\ sendCalls' = 0 /\ attemptLog' = <<>>
    /\ sentTo' = {} /\ pdfFailed' = FALSE
    /\ trace' = <<>> /\ raised' = <<>>
    /\ UNCHANGED <<fnVars, startVars, excel, args_send, config, df, results, exitcode, rcptVars,
                   sendVars, stats, report>>

\* confirm.upper() == 'SI': stats = sender.send_bulk_emails(df)
ConfirmYes ==
    /\ pc = "confirm"
    /\ Len(results) + Len(df) <= MaxResults
    /\ StartBulk(df, FALSE)

\* any other answer: "Envío cancelado"; --send returns, the menu loops
ConfirmNo ==
    /\ pc = "confirm"
    /\ pc' = IF args_send THEN "exit" ELSE "menu"
    /\ exitcode' = IF args_send THEN "0" ELSE exitcode
    /\ UNCHANGED <<fnVars, startVars, excel, args_send, config, df, results, callVars, rcptVars,
                   sendVars, stats, report, histVars>>

\* opcion == '2': stats = sender.send_bulk_emails(df, preview_mode=True)
MenuOption2 ==
    /\ pc = "menu"
    /\ Len(results) + Len(DfHead1(df)) <= MaxResults
    /\ StartBulk(df, TRUE)

\* opcion == '4': df = sender.load_excel()
MenuOption4 ==
    /\ pc = "menu"
    /\ df' = load_excel(excel)
    /\ UNCHANGED <<fnVars, startVars, excel, args_send, config, results, pc, exitcode, callVars,
                   rcptVars, sendVars, stats, report, histVars>>

\* opcion == '5': break; main returns
MenuOption5 ==
    /\ pc = "menu"
    /\ pc' = "exit"
    /\ exitcode' = "0"
    /\ UNCHANGED <<fnVars, startVars, excel, args_send, config, df, results, callVars, rcptVars,
                   sendVars, stats, report, histVars>>

(* --------------------------- send_bulk_emails ------------------------- *)
\* the derived name f"{safe_pdf_name}_{safe_nombre}.pdf"
DerivedFilename(d) == <<"derived", d.nombre>>

\* One iteration of `for idx, row in df.iterrows()` up to the retry loop:
\* the PDF is generated inside try/except, the templates are rendered,
\* success and error_msg are reset.
NextRecipient ==
    /\ pc = "iter"
    /\ pos < total
    /\ pos' = pos + 1
    /\ \E outcome \in {"ok"} \cup PdfRaises :
          /\ pdfFailed' = (outcome # "ok")
          /\ IF outcome = "ok"
             THEN /\ pdf_data' = "bytes"
                  /\ pdf_filename' = DerivedFilename(rows[pos + 1])
                  /\ pc' = "attempt"
                  /\ exitcode' = exitcode
             ELSE IF PdfExceptCatches(outcome)
             THEN /\ pdf_data' = PdfDataOnError
                  /\ pdf_filename' = PdfFilenameOnError
                  /\ pc' = "attempt"
                  /\ exitcode' = exitcode
             ELSE \* the exception reaches main's handler: sys.exit(1)
                  /\ UNCHANGED <<pdf_data, pdf_filename>>
                  /\ pc' = "exit"
                  /\ exitcode' = "1"
    /\ attempt' = 0
    /\ success' = FALSE
    /\ error_msg' = NoneDetail
    /\ waits' = 0 /\ slept' = <<>> /\ sendCalls' = 0 /\ attemptLog' = <<>>
    /\ ret' = <<>>
    /\ UNCHANGED <<fnVars, startVars, excel, args_send, config, df, results, preview_mode,
                   rows, total, success_count, failed_count, spc, msg, server, stats,
                   report, base, sleptAfter, sentTo, trace, raised>>

\* `for attempt in range(max_retries)` yields a value: send_email is called
CallSendEmail ==
    /\ pc = "attempt"
    /\ InRange(attempt, config.max_retries)
    /\ pc' = "send_email"
    /\ spc' = "compose"
    /\ sendCalls' = sendCalls + 1
    /\ sentTo' = sentTo \cup {data.email}
    /\ UNCHANGED <<fnVars, startVars, excel, args_send, config, df, results, exitcode, callVars,
                   rcptVars, msg, ret, server, stats, report, base, sleptAfter,
                   waits, slept, attemptLog, pdfFailed, trace, raised>>

\* range(max_retries) is exhausted: the loop ends without a break
RetriesExhausted ==
    /\ pc = "attempt"
    /\ ~InRange(attempt, config.max_retries)
    /\ pc' = "record"
    /\ UNCHANGED <<fnVars, startVars, excel, args_send, config, df, results, exitcode, callVars,
                   rcptVars, sendVars, stats, report, histVars>>

(* ------------------------------ send_email ---------------------------- *)
\* The connection once an exception left the try block. smtplib closes the
\* socket itself before it raises SMTPServerDisconnected. After any other
\* exception the connection is open: send_email has no finally and its
\* handlers do not call quit() or close(), so the socket stays open until
\* the runtime finalises the SMTP object, at the return or at some later
\* time.
ServerAfterRaise(exc, srv) ==
    IF srv # "open" THEN {srv}
    ELSE IF exc = "SMTPServerDisconnected" THEN {"closed"}
    ELSE {"open", "closed"}

\* A step of the try block raised exc: the except chain returns
\* (False, error); an exception no clause catches leaves send_email and
\* send_bulk_emails and reaches main's handler, which exits with 1.
Raise(step, exc) ==
    /\ spc' = "idle"
    /\ server' \in ServerAfterRaise(exc, server)
    /\ msg' = NoMsg
    /\ raised' = <<step, exc>>
    /\ trace' = trace
    /\ IF ExceptClause(exc) = "uncaught"
       THEN /\ pc' = "exit"
            /\ exitcode' = "1"
            /\ ret' = ret
       ELSE /\ pc' = "returned"
            /\ exitcode' = exitcode
            /\ ret' = <<FALSE, ErrorDetail(exc)>>

\* the step completed
Done(step) ==
    /\ trace' = Append(trace, step)
    /\ raised' = raised

StepFrame ==
    UNCHANGED <<fnVars, startVars, excel, args_send, config, df, results, callVars, rcptVars, stats,
                report, base, sleptAfter, waits, slept, sendCalls, attemptLog,
                sentTo, pdfFailed>>

\* faulty variant: the PDF part is attached whatever pdf_data is
MimeMessage_AlwaysAttaches(to, pdf, filename) ==
    [to |-> to, attachment |-> filename]

\* The message: its recipient and the filename of its PDF part, <<>> when
\* it has none. `if pdf_data:` holds for the bytes of a generated PDF (never
\* empty) and fails for None.
MimeMessage(to, pdf, filename) ==
    [to |-> to, attachment |-> IF pdf # None THEN filename ELSE <<>>]

\* msg = MIMEMultipart(...) with the HTML part and, if pdf_data, the PDF part
Compose ==
    /\ pc = "send_email" /\ spc = "compose"
    /\ \/ /\ msg' = MimeMessage(data.email, pdf_data, pdf_filename)
          /\ spc' = "connect"
          /\ Done("compose")
          /\ UNCHANGED <<pc, exitcode, ret, server>>
       \/ \E exc \in Raises("compose") : Raise("compose", exc)
    /\ StepFrame

\* server = smtplib.SMTP(server, port)
Connect ==
    /\ pc = "send_email" /\ spc = "connect"
    /\ \/ /\ spc' = IF UseTls(config) THEN "starttls" ELSE "login"
          /\ Done("connect")
          /\ server' = "open"
          /\ UNCHANGED <<pc, exitcode, ret, msg>>
       \/ \E exc \in Raises("connect") : Raise("connect", exc)
    /\ StepFrame

\* server.starttls()
StartTls ==
    /\ pc = "send_email" /\ spc = "starttls"
    /\ \/ /\ spc' = "login"
          /\ Done("starttls")
          /\ UNCHANGED <<pc, exitcode, ret, msg, server>>
       \/ \E exc \in Raises("starttls") : Raise("starttls", exc)
    /\ StepFrame

\* server.login(self.email, self.password)
Login ==
    /\ pc = "send_email" /\ spc = "login"
    /\ \/ /\ spc' = "send_message"
          /\ Done("login")
          /\ UNCHANGED <<pc, exitcode, ret, msg, server>>
       \/ \E exc \in Raises("login") : Raise("login", exc)
    /\ StepFrame

\* server.send_message(msg)
SendMessage ==
    /\ pc = "send_email" /\ spc = "send_message"
    /\ \/ /\ spc' = "quit"
          /\ Done("send_message")
          /\ UNCHANGED <<pc, exitcode, ret, msg, server>>
       \/ \E exc \in Raises("send_message") : Raise("send_message", exc)
    /\ StepFrame

\* server.quit(); return True, None
Quit ==
    /\ pc = "send_email" /\ spc = "quit"
    /\ \/ /\ spc' = "idle"
          /\ pc' = "returned"
          /\ ret' = <<TRUE, NoneDetail>>
          /\ Done("quit")
          /\ server' = "closed"
          /\ msg' = NoMsg
          /\ exitcode' = exitcode
       \/ \E exc \in Raises("quit") : Raise("quit", exc)
    /\ StepFrame

(* ------------------- send_bulk_emails, after the call ----------------- *)
\* success, error_msg = self.send_email(...); break on success, otherwise
\* sleep before the next attempt unless this was the last one
AttemptReturn ==
    /\ pc = "returned"
    /\ success' = ret[1]
    /\ error_msg' = ret[2]
    /\ attemptLog' = Append(attemptLog, ret[1])
    /\ IF ret[1]
       THEN /\ pc' = "record"
            /\ UNCHANGED <<attempt, waits, slept>>
       ELSE /\ waits' = IF NeedsBackoff(attempt, config.max_retries)
                        THEN waits + 1 ELSE waits
            /\ slept' = IF NeedsBackoff(attempt, config.max_retries)
                        THEN Append(slept, BackoffWait(attempt)) ELSE slept
            /\ attempt' = attempt + 1
            /\ pc' = "attempt"
    /\ UNCHANGED <<fnVars, startVars, excel, args_send, config, df, results, exitcode, callVars,
                   pdf_data, pdf_filename, spc, msg, ret, stats, report, base,
                   sleptAfter, sendCalls, sentTo, pdfFailed>>
    /\ trace' = <<>> /\ raised' = <<>> /\ server' = "none"

\* the result is appended and counted; the inter-recipient sleep follows
\* when idx < total - 1
RecordResult ==
    /\ pc = "record"
    /\ results' = AppendResult(results, MakeResult(data, success, error_msg))
    /\ IF success
       THEN success_count' = success_count + 1 /\ failed_count' = failed_count
       ELSE failed_count' = failed_count + 1 /\ success_count' = success_count
    /\ sleptAfter' = IF NeedsDelay(data.idx, total)
                     THEN sleptAfter \cup {pos} ELSE sleptAfter
    /\ pc' = "iter"
    /\ UNCHANGED <<fnVars, startVars, excel, args_send, config, df, exitcode, preview_mode, rows,
                   total, pos, rcptVars, sendVars, stats, report, base,
                   waits, slept, sendCalls, attemptLog, sentTo, pdfFailed, trace,
                   raised>>

\* the loop is over: stats is built and returned
BulkReturn ==
    /\ pc = "iter"
    /\ pos = total
    /\ stats' = [total |-> total, success |-> success_count,
                 failed |-> failed_count]
    /\ pc' = "report"
    /\ UNCHANGED <<fnVars, startVars, excel, args_send, config, df, results, exitcode, callVars,
                   rcptVars, sendVars, report, histVars>>

\* The locals of the send_bulk_emails call that returned are gone, and
\* with them the history of that call.
FrameGone ==
    /\ preview_mode' = FALSE
    /\ rows' = <<>>
    /\ total' = 0 /\ success_count' = 0 /\ failed_count' = 0
    /\ pos' = 0
    /\ pdf_data' = None /\ pdf_filename' = <<>>
    /\ attempt' = 0
    /\ success' = FALSE /\ error_msg' = NoneDetail
    /\ spc' = "idle" /\ msg' = NoMsg /\ ret' = <<>> /\ server' = "none"
    /\ base' = 0 /\ sleptAfter' = {} /\ waits' = 0 /\ slept' = <<>> /\ sendCalls' = 0
    /\ attemptLog' = <<>> /\ sentTo' = {} /\ pdfFailed' = FALSE
    /\ trace' = <<>> /\ raised' = <<>>

\* sender.generate_report(): "" for an empty ledger, else the ledger as CSV;
\* then --send returns from main and the menu loops
GenerateReport ==
    /\ pc = "report"
    /\ report' = IF results = <<>> THEN <<>> ELSE results
    /\ pc' = IF args_send THEN "exit" ELSE "menu"
    /\ exitcode' = IF args_send THEN "0" ELSE exitcode
    /\ FrameGone
    /\ UNCHANGED <<fnVars, startVars, excel, args_send, config, df, results, stats>>

(* --------------------------- specifications --------------------------- *)
SendEmailStep ==
    Compose \/ Connect \/ StartTls \/ Login \/ SendMessage \/ Quit

BulkStep ==
    \/ NextRecipient \/ CallSendEmail \/ RetriesExhausted \/ SendEmailStep
    \/ AttemptReturn \/ RecordResult \/ BulkReturn

Next ==
    \/ LoadExcel
    \/ MenuOption1 \/ ConfirmYes \/ ConfirmNo
    \/ MenuOption2 \/ MenuOption4 \/ MenuOption5
    \/ NextRecipient \/ CallSendEmail \/ RetriesExhausted
    \/ Compose \/ Connect \/ StartTls \/ Login \/ SendMessage \/ Quit
    \/ AttemptReturn \/ RecordResult \/ BulkReturn
    \/ GenerateReport

Spec == Init /\ [][Next]_vars

\* One call of send_bulk_emails taken alone, from its entry to its return,
\* for every table load_excel yields, with and without preview_mode, on an
\* empty ledger (a first run) and on a ledger an earlier run left.
PriorLedgers ==
    {<<>>, <<MakeResult(ExcelRow(1, TRUE), TRUE, NoneDetail)>>}

CallInitWith(configs) ==
    /\ FnIdle
    /\ Started
    /\ excel \in ExcelFiles
    /\ args_send = FALSE
    /\ config \in configs
    /\ df = load_excel(excel)
    /\ results \in PriorLedgers
    /\ pc = "iter"
    /\ exitcode = None
    /\ preview_mode \in BOOLEAN
    /\ rows = IF preview_mode THEN DfHead1(df) ELSE df
    /\ Len(results) + Len(rows) <= MaxResults
    /\ total = Len(rows)
    /\ success_count = 0 /\ failed_count = 0
    /\ pos = 0
    /\ pdf_data = None /\ pdf_filename = <<>>
    /\ attempt = 0
    /\ success = FALSE /\ error_msg = NoneDetail
    /\ spc = "idle" /\ msg = NoMsg /\ ret = <<>> /\ server = "none"
    /\ stats = NoStats
    /\ report = <<>>
    /\ base = Len(results) /\ sleptAfter = {} /\ waits = 0 /\ slept = <<>> /\ sendCalls = 0
    /\ attemptLog = <<>> /\ sentTo = {} /\ pdfFailed = FALSE
    /\ trace = <<>> /\ raised = <<>>

CallInit == CallInitWith(Configs)

\* The program is sequential code: once send_bulk_emails is entered, its
\* next statement runs; every sleep and every SMTP call returns or raises.
CallSpec == CallInit /\ [][BulkStep]_vars /\ WF_vars(BulkStep)

\* The same call under configurations whose settings also hold a backoff
\* for the retries, which no line of the code reads.
BackoffsTried == {0, 5}
BackoffConfigs ==
    [max_retries : 1..MaxTimedRetries, use_tls : {Absent},
     retry_backoff : BackoffsTried]

RetryInit == CallInitWith(BackoffConfigs)

RetrySpec == RetryInit /\ [][BulkStep]_vars

(* ------------------ _render_template, taken alone --------------------- *)
\* main and send_bulk_emails are not running
MainIdle ==
    /\ Started
    /\ excel = <<>>
    /\ args_send = FALSE
    /\ config = [max_retries |-> 1, use_tls |-> Absent]
    /\ df = <<>>
    /\ results = <<>>
    /\ exitcode = None
    /\ preview_mode = FALSE
    /\ rows = <<>>
    /\ total = 0 /\ success_count = 0 /\ failed_count = 0
    /\ pos = 0
    /\ pdf_data = None /\ pdf_filename = <<>>
    /\ attempt = 0
    /\ success = FALSE /\ error_msg = NoneDetail
    /\ spc = "idle" /\ msg = NoMsg /\ ret = <<>> /\ server = "none"
    /\ stats = NoStats
    /\ report = <<>>
    /\ base = 0 /\ sleptAfter = {} /\ waits = 0 /\ slept = <<>> /\ sendCalls = 0
    /\ attemptLog = <<>> /\ sentTo = {} /\ pdfFailed = FALSE
    /\ trace = <<>> /\ raised = <<>>

\* a call _render_template(template, data) is about to run, for every
\* template and every dict tried
RenderInit ==
    /\ MainIdle
    /\ pc = "render"
    /\ template \in Templates
    /\ fields \in Dicts
    /\ rendered = <<>>

\* the whole call: from_name is put into the caller's dict, the loop runs
\* over the dict's items in their order, the text is returned
RenderTemplate ==
    /\ pc = "render"
    /\ fields' = WithFromName(fields)
    /\ rendered' = render_template(template, fields)
    /\ pc' = "rendered"
    /\ UNCHANGED <<mainVars, template, startVars>>

RenderSpec == RenderInit /\ [][RenderTemplate]_vars

(* ---------------- the PDF try block, taken alone ---------------------- *)
\* one row of the table is about to go through lines 282-295
FileInit ==
    /\ MainIdle
    /\ pc = "pdf"
    /\ template = <<>>
    /\ fields \in Records
    /\ rendered = <<>>

\* data = {k: v if notna ...}; then the try block: the PDF is generated and
\* the filename derived, or the handler sets pdf_data = None and the
\* filename "documento.pdf". The generation comes first: when the
\* derivation of the filename raises, pdf_data already holds the bytes.
GeneratePdf ==
    /\ pc = "pdf"
    /\ fields' = Normalise(fields)
    /\ \E exc \in {"ok"} \cup PdfRaises \cup DeriveRaises(fields') :
          /\ pdfFailed' = (exc # "ok")
          /\ raised' = IF exc = "ok" THEN <<>>
                       ELSE IF exc \in PdfRaises THEN <<"generate", exc>>
                       ELSE <<"filename", exc>>
          /\ IF exc = "ok" /\ DeriveRaises(fields') = {}
             THEN /\ pdf_data' = "bytes"
                  /\ pdf_filename' = PdfFilename(fields')
                  /\ pc' = "pdf_done"
                  /\ exitcode' = exitcode
             ELSE IF exc # "ok" /\ PdfExceptCatches(exc)
             THEN /\ pdf_data' = PdfDataOnError
                  /\ pdf_filename' = PdfFilenameOnError
                  /\ pc' = "pdf_done"
                  /\ exitcode' = exitcode
             ELSE IF exc # "ok"
             THEN /\ UNCHANGED <<pdf_data, pdf_filename>>
                  /\ pc' = "exit"
                  /\ exitcode' = "1"
             ELSE FALSE
    /\ UNCHANGED <<excel, args_send, config, df, results, callVars, attempt,
                   success, error_msg, sendVars, stats, report, base,
                   sleptAfter, waits, slept, sendCalls, attemptLog, sentTo, trace,
                   template, rendered, startVars>>

\* send_email is called with pdf_data and pdf_filename as the try block left
\* them, and composes its message
ComposeWithPdf ==
    /\ pc = "pdf_done"
    /\ msg' = MimeMessage(Address(1), pdf_data, pdf_filename)
    /\ pc' = "composed"
    /\ UNCHANGED <<excel, args_send, config, df, results, exitcode, callVars,
                   rcptVars, spc, ret, server, stats, report, histVars, fnVars,
                   startVars>>

FileSpec == FileInit /\ [][GeneratePdf \/ ComposeWithPdf]_vars

(* ----------------- the process, from its start to its end ------------- *)
\* main has parsed its arguments and is about to call EmailSender(...).
\* The tables tried have valid addresses only and the configurations leave
\* use_tls out: neither plays a part in how the process starts and ends.
StartInit ==
    /\ FnIdle
    /\ env \in Envs
    /\ email_template = <<>>
    /\ excel \in {f \in ExcelFiles : \A i \in 1..Len(f) : EmailMatches(f[i].email)}
    /\ args_send \in BOOLEAN
    /\ config \in {c \in Configs : c.use_tls = Absent}
    /\ df = <<>>
    /\ results = <<>>
    /\ pc = "config"
    /\ exitcode = None
    /\ preview_mode = FALSE
    /\ rows = <<>>
    /\ total = 0 /\ success_count = 0 /\ failed_count = 0
    /\ pos = 0
    /\ pdf_data = None /\ pdf_filename = <<>>
    /\ attempt = 0
    /\ success = FALSE /\ error_msg = NoneDetail
    /\ spc = "idle" /\ msg = NoMsg /\ ret = <<>> /\ server = "none"
    /\ stats = NoStats
    /\ report = <<>>
    /\ base = 0 /\ sleptAfter = {} /\ waits = 0 /\ slept = <<>> /\ sendCalls = 0
    /\ attemptLog = <<>> /\ sentTo = {} /\ pdfFailed = FALSE
    /\ trace = <<>> /\ raised = <<>>

\* A step of the start-up: it returns and the next one follows, or what it
\* raises reaches main's handlers and the process exits.
StartupStep(step, next) ==
    /\ pc = step
    /\ LET exc == StartupRaises(step, env)
       IN  IF exc = "ok"
           THEN pc' = next /\ exitcode' = exitcode
           ELSE pc' = "exit" /\ exitcode' = MainExcept(exc)
    /\ UNCHANGED <<excel, args_send, config, df, results, callVars, rcptVars,
                   sendVars, stats, report, histVars, fnVars, env>>

\* self.config = self._load_config(config_path)
LoadConfig ==
    /\ StartupStep("config", "credentials")
    /\ email_template' = email_template

\* if not self.email or not self.password: raise ValueError
CheckCredentials ==
    /\ StartupStep("credentials", "template")
    /\ email_template' = email_template

\* self.email_template = self._load_email_template(): the file's text, or
\* the basic template when the file is not found
LoadTemplate ==
    /\ StartupStep("template", "load")
    /\ email_template' = IF env.template_file = "ok" THEN TemplateOnDisk
                         ELSE IF env.template_file = "missing" THEN BasicTemplate
                         ELSE email_template

\* df = sender.load_excel() raises
LoadExcelFails ==
    /\ StartupRaises("load", env) # "ok"
    /\ StartupStep("load", "load")
    /\ email_template' = email_template

\* Ctrl-C: KeyboardInterrupt is raised in whatever statement is running. No
\* handler below main catches it (`except Exception` does not), so main's
\* handler prints and calls sys.exit(0); nothing else runs.
Interrupt ==
    /\ pc \notin {"exit", "interrupted"}
    /\ pc' = "interrupted"
    /\ exitcode' = MainExcept("KeyboardInterrupt")
    /\ UNCHANGED <<excel, args_send, config, df, results, callVars, rcptVars,
                   sendVars, stats, report, histVars, fnVars, startVars>>

ProcessNext ==
    \/ LoadConfig \/ CheckCredentials \/ LoadTemplate \/ LoadExcelFails
    \/ Next
    \/ Interrupt

ProcessSpec == StartInit /\ [][ProcessNext]_vars

(* ------------------------------ properties ---------------------------- *)
\* a send_bulk_emails call is in progress or has just returned
InCall == pc \in {"iter", "attempt", "send_email", "returned", "record", "report"}

\* the ledger entries the call has appended
Appended == SubSeq(results, base + 1, Len(results))

\* how many entries of a sequence of results carry the status
RECURSIVE CountStatus(_, _)
CountStatus(ledger, status) ==
    IF ledger = <<>> THEN 0
    ELSE (IF Head(ledger).status = status THEN 1 ELSE 0)
         + CountStatus(Tail(ledger), status)

\* the current recipient's result is in the ledger
Recorded == pc \in {"iter", "report"} /\ pos >= 1

LastResult == results[Len(results)]

\* C1 as claimed: whenever send_bulk_emails has returned, on a first or on a
\* later run, the ledger is as long as the number of recipients the call
\* processed.
C1_LedgerLenIsProcessed ==
    pc = "report" => Len(results) = stats.total

\* C1 as amended: when send_bulk_emails has returned, the ledger has grown by
\* the number of recipients the call processed; it is as long as that number
\* when the ledger was empty at the start of the call (the first run).
C1_LedgerGrowsByProcessed ==
    pc = "report" =>
        /\ stats.total = Len(rows)
        /\ Len(results) = base + stats.total
        /\ (base = 0 => Len(results) = stats.total)

\* a later run that processed a recipient has returned
C1_Witness ==
    pc = "report" /\ base > 0 /\ stats.total > 0

\* C2: within a call one result is appended per processed recipient, in the
\* order of the input, carrying the recipient's email and name; no send_email
\* call for a recipient starts before the previous recipient's result is in
\* the ledger; the returned stats count the 'Éxito' and 'Error' entries the
\* call appended and add up to total.
C2_OneResultPerRecipientInOrder ==
    InCall =>
        /\ Len(results) - base = IF pc \in {"iter", "report"} THEN pos ELSE pos - 1
        /\ \A j \in 1..Len(Appended) :
              /\ Appended[j].email = rows[j].email
              /\ Appended[j].nombre = rows[j].nombre
        /\ pc = "send_email" =>
              /\ Len(results) - base = pos - 1
              /\ sentTo \subseteq {rows[j].email : j \in 1..pos}
        /\ pc = "report" =>
              /\ Len(Appended) = Len(rows)
              /\ stats.success + stats.failed = stats.total
              /\ stats.success = CountStatus(Appended, "Éxito")
              /\ stats.failed = CountStatus(Appended, "Error")

\* a run over two recipients returned with one success and one failure
C2_Witness ==
    pc = "report" /\ stats.total = 2 /\ stats.success = 1 /\ stats.failed = 1

\* C3: when send_email succeeds on attempt k after failing on attempts
\* 1..k-1, k calls were made for the recipient and none follows, k-1 backoff
\* sleeps were taken, and the recorded result is 'Éxito' with error ''.
C3_SuccessOnAttemptK ==
    \A k \in 1..Len(attemptLog) :
        attemptLog[k] =>
            /\ k = Len(attemptLog)
            /\ k <= config.max_retries
            /\ sendCalls = k
            /\ waits = k - 1
            /\ pc \in {"record", "iter", "report"}
            /\ Recorded =>
                  /\ LastResult.status = "Éxito"
                  /\ LastResult.error = EmptyDetail
                  /\ LastResult.email = data.email

\* a recipient's last allowed attempt succeeded after a failure
C3_Witness ==
    /\ Recorded
    /\ config.max_retries >= 2
    /\ Len(attemptLog) = config.max_retries
    /\ attemptLog[Len(attemptLog)]

\* every send_email call made for the current recipient failed
AllFailed ==
    Len(attemptLog) >= 1 /\ \A k \in 1..Len(attemptLog) : ~attemptLog[k]

\* C4: when every attempt for a recipient failed, max_retries calls were
\* made, max_retries - 1 backoff sleeps were taken (none after the last
\* attempt) and the recorded result is 'Error' with the error the last
\* attempt returned.
C4_AllAttemptsFail ==
    (Recorded /\ AllFailed) =>
        /\ Len(attemptLog) = config.max_retries
        /\ sendCalls = config.max_retries
        /\ waits = config.max_retries - 1
        /\ LastResult.status = "Error"
        /\ LastResult.error = ret[2]
        /\ LastResult.error[1] \in
              {"Error de autenticación", "Error SMTP", "Error inesperado"}

\* two attempts failed and the result is recorded
C4_Witness ==
    /\ Recorded /\ AllFailed
    /\ config.max_retries >= 2
    /\ waits >= 1

\* C5 as claimed: in a call over n recipients the inter-recipient sleep runs
\* after each recipient but the last, n-1 times in all, for every table
\* load_excel can yield.
C5_DelayAfterAllButLast ==
    pc = "report" => sleptAfter = 1..(stats.total - 1)

\* C6: in preview mode, for a table of at least one row, the call works on
\* the first row only: send_email is called for that address alone, one
\* result is appended and the returned total is 1.
C6_PreviewProcessesFirstOnly ==
    (InCall /\ preview_mode /\ Len(df) >= 1) =>
        /\ rows = <<df[1]>>
        /\ total = 1
        /\ sentTo \subseteq {df[1].email}
        /\ Len(Appended) <= 1
        /\ pc = "report" =>
              /\ Len(Appended) = 1
              /\ Appended[1].email = df[1].email
              /\ stats.total = 1

\* a preview run over a table of two rows or more returned after sending
C6_Witness ==
    pc = "report" /\ preview_mode /\ Len(df) >= 2 /\ sentTo # {}

\* C7: whatever the send failures and PDF failures, a call that started
\* returns its stats, and then every recipient of its input has a result.
C7_RunReturnsComplete ==
    (pc = "iter" /\ pos = 0)
        ~> (/\ pc = "report"
            /\ (~preview_mode => rows = df)
            /\ stats.total = Len(rows)
            /\ Len(Appended) = Len(rows)
            /\ \A j \in 1..Len(rows) : Appended[j].email = rows[j].email)

\* a run over two recipients returned although both failed, the last one
\* also without its PDF
C7_Witness ==
    pc = "report" /\ stats.total = 2 /\ stats.failed = 2 /\ pdfFailed

\* C8: when the PDF generation fails for a recipient, send_email is still
\* called for that recipient (max_retries >= 1), with pdf_data None and no
\* PDF part in the message; the result is 'Éxito' exactly when an attempt
\* succeeded, and the run goes on.
C8_PdfFailureStillSends ==
    pdfFailed =>
        /\ InCall
        /\ pdf_data = None
        /\ (pc = "send_email" /\ spc # "compose") =>
              /\ msg.to = data.email
              /\ msg.attachment = <<>>
        /\ (Recorded /\ config.max_retries >= 1) =>
              /\ sendCalls >= 1
              /\ data.email \in sentTo
              /\ LastResult.status = "Éxito"
                    <=> \E k \in 1..Len(attemptLog) : attemptLog[k]

\* a recipient whose PDF failed got a successful result and another
\* recipient follows
C8_Witness ==
    /\ pdfFailed /\ pc = "iter" /\ pos >= 1 /\ pos < total
    /\ LastResult.status = "Éxito"

\* the steps a send_email call completes when nothing raises
FullTrace ==
    IF UseTls(config)
    THEN <<"compose", "connect", "starttls", "login", "send_message", "quit">>
    ELSE <<"compose", "connect", "login", "send_message", "quit">>

Prefixes == {"Error de autenticación", "Error SMTP", "Error inesperado"}

\* C9: no exception leaves send_email, whichever step raises; a failed call
\* returns (False, detail) with a non-empty detail made of a prefix and the
\* exception's text, and (True, None) is returned only when every step
\* completed.
C9_SendEmailNeverRaises ==
    /\ raised # <<>> => pc = "returned"
    /\ pc = "returned" =>
          IF ret[1]
          THEN /\ ret[2] = NoneDetail
               /\ raised = <<>>
               /\ trace = FullTrace
          ELSE /\ raised # <<>>
               /\ ret[2] \notin {NoneDetail, EmptyDetail}
               /\ ret[2][1] \in Prefixes
               /\ ret[2][2] = raised[2]
               /\ Len(trace) < Len(FullTrace)
               /\ trace = SubSeq(FullTrace, 1, Len(trace))
               /\ FullTrace[Len(trace) + 1] = raised[1]

\* server.quit() raised after the message was transmitted
C9_Witness ==
    pc = "returned" /\ ~ret[1] /\ raised # <<>> /\ raised[1] = "quit"

\* C10 as claimed: an authentication failure gives 'Error de autenticación',
\* any other failure of a protocol step, the connection to the SMTP host
\* included, gives 'Error SMTP', and only a failure outside the protocol
\* steps gives 'Error inesperado'.
C10_ConnectFailureIsTransportError ==
    (pc = "returned" /\ ~ret[1]) =>
        ret[2][1] =
            IF raised[2] = "SMTPAuthenticationError" THEN "Error de autenticación"
            ELSE IF raised[1] \in {"connect", "starttls", "login",
                                   "send_message", "quit"}
                 THEN "Error SMTP"
            ELSE "Error inesperado"

\* C10 as amended: the class follows the exception's Python class. An
\* SMTPAuthenticationError gives 'Error de autenticación', any other
\* SMTPException gives 'Error SMTP', everything else gives 'Error
\* inesperado', and that includes a refused connection to the SMTP host,
\* which is an OSError and no SMTPException.
C10_ClassifiedByExceptionClass ==
    (pc = "returned" /\ ~ret[1]) =>
        /\ ret[2][1] \in Prefixes
        /\ ret[2][1] = "Error de autenticación"
              <=> raised[2] = "SMTPAuthenticationError"
        /\ ret[2][1] = "Error SMTP"
              <=> /\ "SMTPException" \in Bases(raised[2])
                  /\ raised[2] # "SMTPAuthenticationError"
        /\ ret[2][1] = "Error inesperado"
              <=> "SMTPException" \notin Bases(raised[2])
        /\ raised = <<"connect", "ConnectionRefusedError">>
              => ret[2][1] = "Error inesperado"

\* the connection to the SMTP host was refused
C10_Witness ==
    /\ pc = "returned"
    /\ raised = <<"connect", "ConnectionRefusedError">>
    /\ ret[2][1] = "Error inesperado"

(* ------------------- properties of _render_template ------------------- *)
\* the same items in every order
Orders(d) ==
    {[i \in 1..Len(d) |-> d[f[i]]] : f \in Permutations(1..Len(d))}

\* C11 as claimed: the rendered text is the same under every iteration
\* order of the dict's items, also when a value holds the placeholder of
\* another key.
C11_OrderIndependent ==
    pc = "rendered" =>
        \A items \in Orders(fields) : RenderLoop(template, items) = rendered

\* the text with every placeholder of a key of the dict replaced by the
\* key's str(value) in one pass from left to right, and nothing else changed
RECURSIVE Substitute(_, _)
Substitute(s, d) ==
    IF s = <<>> THEN <<>>
    ELSE IF \E i \in 1..Len(d) :
               /\ Len(s) >= 3
               /\ SubSeq(s, 1, 3) = Placeholder(d[i][1])
         THEN LET i == CHOOSE i \in 1..Len(d) :
                           SubSeq(s, 1, 3) = Placeholder(d[i][1])
              IN  Str(d[i][2]) \o Substitute(SubSeq(s, 4, Len(s)), d)
         ELSE <<Head(s)>> \o Substitute(Tail(s), d)

\* C12 as claimed: the rendered text is the template with each occurrence of
\* a placeholder {{k}} replaced by str(value) of k, for the keys of the dict
\* and for from_name (the configured one, also when the dict had its own);
\* fields the template does not name change nothing and placeholders of
\* absent keys stay as they are.
C12_RendersBySubstitution ==
    pc = "rendered" =>
        /\ <<"from_name", Text(FromName)>> \in {fields[i] : i \in 1..Len(fields)}
        /\ rendered = Substitute(template, fields)

(* ---------------- properties of the attachment's filename ------------- *)
\* the characters of s with every one of the set chars turned into '_'
Mapped(s, chars) == [i \in 1..Len(s) |-> IF s[i] \in chars THEN "_" ELSE s[i]]

\* the PDF try block went through without raising
Derived == pc = "pdf_done" /\ pdf_data # None

\* C13: the filename of the attachment holds no '/', '\' or ':'. When it is
\* derived from the record it is the title cell, '_', the name cell and
\* '.pdf', with every '/', '\' and ':' of either cell turned into '_' (and
\* every blank of the name).
C13_FilenameIsSanitised ==
    pc = "pdf_done" =>
        /\ \A i \in 1..Len(pdf_filename) : pdf_filename[i] \notin {"/", "\\", ":"}
        /\ Derived =>
              pdf_filename =
                  Mapped(PdfName(fields)[2], {"/", "\\", ":"})
                      \o <<"_">>
                      \o Mapped(Item(fields, "nombre")[2], {"/", "\\", ":", " "})
                      \o <<".pdf">>

\* a filename was derived from a title with ':' and a name with '/' and '\'
C13_Witness ==
    /\ Derived
    /\ "nombre_pdf" \in DictKeys(fields)
    /\ Item(fields, "nombre_pdf") = Text(<<":", "n">>)
    /\ Item(fields, "nombre") = Text(<<"/", "\\">>)

\* C14 as claimed: for a record without nombre_pdf the filename used is
\* "documento.pdf".
C14_AbsentTitleGivesDocumentoPdf ==
    (pc = "pdf_done" /\ "nombre_pdf" \notin DictKeys(fields)) =>
        pdf_filename = <<"documento", ".pdf">>

\* C14 as amended: for a record without nombre_pdf whose PDF was generated,
\* the filename is 'documento', '_', the sanitised name and '.pdf';
\* "documento.pdf" is the filename exactly when the try block raised, with
\* or without nombre_pdf.
C14_AbsentTitleGivesDocumentoSegment ==
    pc = "pdf_done" =>
        /\ (Derived /\ "nombre_pdf" \notin DictKeys(fields)) =>
              pdf_filename =
                  <<"documento", "_">> \o safe_nombre(fields) \o <<".pdf">>
        /\ pdf_filename = <<"documento", ".pdf">> <=> pdf_data = None
        /\ pdf_data = None <=> pdfFailed

\* a record without nombre_pdf got a derived filename
C14_Witness ==
    /\ Derived
    /\ "nombre_pdf" \notin DictKeys(fields)
    /\ Item(fields, "nombre") = Text(<<"n", " ">>)
    /\ pdf_filename = <<"documento", "_", "n", "_", ".pdf">>

(* --------------------------- properties of main ----------------------- *)
\* C15 as claimed: started with --send the program reads no confirmation,
\* and when it ends the bulk send over the loaded recipients has taken place.
C15_SendNeverAsks ==
    args_send =>
        /\ pc # "confirm"
        /\ pc = "exit" => stats.total = Len(df)

\* where send_bulk_emails is running or has just returned
CallPcs == {"iter", "attempt", "send_email", "returned", "record", "report"}

\* C15 as amended: started with --send the program never shows the menu;
\* after loading the recipients it asks for the confirmation once, and
\* send_bulk_emails starts only from that prompt, on the answer 'SI'. On any
\* other answer the process ends with exit code 0 and nothing is sent.
C15_SendAsksOnce ==
    [][args_send =>
          /\ pc' # "menu"
          /\ pc = "load" => pc' = "confirm"
          /\ pc = "confirm" =>
                \/ pc' = "iter" /\ rows' = df /\ ~preview_mode'
                \/ pc' = "exit" /\ exitcode' = "0" /\ results' = <<>>
          /\ (pc \notin CallPcs /\ pc' \in CallPcs) => pc = "confirm"]_vars

\* started with --send over a table with recipients, the program ended at
\* the confirmation prompt without sending
C15_Witness ==
    /\ args_send /\ pc = "exit" /\ exitcode = "0"
    /\ Len(df) >= 1
    /\ results = <<>> /\ stats = NoStats

(* ------------------------ properties of send_email -------------------- *)
\* C17 as claimed: when a send_email call returns, on success or after a
\* failure, the connection it opened is closed.
C17_NoConnectionLeftOpen ==
    pc = "returned" => server # "open"

\* the step is among those the call in progress completed
InTrace(step) == \E i \in 1..Len(trace) : trace[i] = step

\* C18: the steps of a send_email call complete in the order connect,
\* STARTTLS (when use_tls is true or absent), login, transmit, quit: login
\* is reached only after STARTTLS completed when TLS is on, never after a
\* STARTTLS when it is off, and the message is transmitted only after the
\* login of the same call completed.
C18_StepsInOrder ==
    pc \in {"send_email", "returned"} =>
        LET tls == config.use_tls \in {"True", Absent}
            order == IF tls
                     THEN <<"compose", "connect", "starttls", "login",
                            "send_message", "quit">>
                     ELSE <<"compose", "connect", "login", "send_message",
                            "quit">>
        IN  /\ Len(trace) <= Len(order)
            /\ trace = SubSeq(order, 1, Len(trace))
            /\ (spc = "login" \/ InTrace("login")) =>
                  /\ InTrace("connect")
                  /\ InTrace("starttls") <=> tls
            /\ (spc = "send_message" \/ InTrace("send_message")) =>
                  InTrace("login")
            /\ InTrace("quit") => InTrace("send_message")
            /\ (pc = "returned" /\ ret[1]) => trace = order

\* a call made without use_tls in the configuration returned after all six
\* steps
C18_Witness ==
    /\ pc = "returned" /\ ret[1]
    /\ config.use_tls = Absent
    /\ InTrace("starttls") /\ InTrace("quit")

(* ------------------------ properties of the backoff ------------------- *)
\* C19 as claimed: every backoff sleep lasts the backoff the configuration
\* holds.
C19_WaitIsConfiguredBackoff ==
    \A i \in 1..Len(slept) : slept[i] = config.retry_backoff

\* C19 as amended: every backoff sleep lasts 2 seconds, whatever the attempt
\* number and whatever the configuration holds.
C19_WaitIsTwoSeconds ==
    /\ Len(slept) = waits
    /\ \A i \in 1..Len(slept) : slept[i] = 2

\* two backoff sleeps were taken for a recipient under a configuration that
\* holds another backoff
C19_Witness ==
    Len(slept) = 2 /\ config.retry_backoff = 5 /\ pc = "record"

(* -------------------- properties of the whole process ----------------- *)
\* a start-up condition the code treats as fatal
Fatal ==
    \/ env.config_file # "ok"
    \/ ~env.credentials
    \/ env.template_file = "unreadable"
    \/ env.excel_file # "ok"

C20_LedgerCoversAttempted ==
    pc = "interrupted" =>
        \A e \in sentTo :
            \E j \in (base + 1)..Len(results) : results[j].email = e

(* ------------------------ properties of the ledger -------------------- *)
\* C21: the ledger only grows at its end, by one result at a time. Every
\* step leaves the entries it holds as they are and in their order; a
\* result is added only where send_bulk_emails records a recipient; and
\* generate_report changes neither the ledger nor the configuration, the
\* template, the loaded table or the stats the call returned.
C21_LedgerAppendOnly ==
    [][/\ Len(results') \in {Len(results), Len(results) + 1}
       /\ SubSeq(results', 1, Len(results)) = results
       /\ results' # results => (pc = "record" /\ pc' = "iter")
       /\ pc = "report" =>
             UNCHANGED <<results, config, email_template, df, excel, stats>>
       /\ pc \in {"load", "menu", "confirm"} => results' = results]_vars

\* the report was written from a ledger of two results and the menu is
\* shown again
C21_Witness ==
    /\ pc = "menu"
    /\ Len(results) = 2
    /\ report = results
    /\ results[1].email # results[2].email

(* ------------------- properties of the retry bound -------------------- *)
\* C22: under a max_retries of 0 or less, send_email is never called and
\* no backoff sleep is taken; every recipient still gets one result, with
\* status 'Error' and the error None, and the returned stats count every
\* recipient as failed.
C22_NoRetriesNoSend ==
    (InCall /\ config.max_retries <= 0) =>
        /\ pc \notin {"send_email", "returned"}
        /\ sendCalls = 0 /\ sentTo = {} /\ attemptLog = <<>>
        /\ waits = 0 /\ slept = <<>>
        /\ failed_count = Len(Appended) /\ success_count = 0
        /\ Len(Appended) = IF pc \in {"iter", "report"} THEN pos ELSE pos - 1
        /\ \A j \in 1..Len(Appended) :
              /\ Appended[j].email = rows[j].email
              /\ Appended[j].status = "Error"
              /\ Appended[j].error = NoneDetail
        /\ pc = "report" =>
              /\ Len(Appended) = Len(rows)
              /\ stats = [total |-> Len(rows), success |-> 0,
                          failed |-> Len(rows)]

\* a call over two recipients returned under a negative max_retries
C22_Witness ==
    /\ pc = "report"
    /\ config.max_retries < 0
    /\ stats.total = 2 /\ stats.failed = 2
    /\ Len(Appended) = 2

(* ---------------------- properties of the attachment ------------------ *)
\* C23: the message has a PDF part only when the generation of the PDF and
\* the derivation of its filename both went through, and then under the
\* derived filename. When either raised, the derivation after a successful
\* generation included, pdf_data is None and the message has no PDF part;
\* and whenever the message has no PDF part, the filename handed to
\* send_email is "documento.pdf".
C23_AttachmentOnlyIfBothSucceed ==
    pc = "composed" =>
        /\ msg.attachment # <<>> =>
              /\ raised = <<>>
              /\ DeriveRaises(fields) = {}
              /\ pdf_data # None
              /\ msg.attachment = PdfFilename(fields)
        /\ raised # <<>> =>
              /\ pdf_data = None
              /\ msg.attachment = <<>>
        /\ msg.attachment = <<>> =>
              /\ raised # <<>>
              /\ pdf_filename = <<"documento", ".pdf">>

\* the PDF was generated, the derivation of the filename raised on a
\* numeric name, and the message was composed without a PDF part
C23_Witness ==
    /\ pc = "composed"
    /\ raised = <<"filename", "AttributeError">>
    /\ Item(fields, "nombre") = Number(42)
    /\ msg.attachment = <<>>

====
